---- MODULE Spec2Model ----
(***************************************************************************)
(* State-machine model of TextGridEditor (src/map_editor.py): the grid,    *)
(* the selection, the undo stack, the viewport, the pool of canvas objects *)
(* and the Tk scheduler (after_idle queue and after(ms) timers).           *)
(* Cells hold one-character strings.  Coordinates are <<row, col>>.        *)
(***************************************************************************)
EXTENDS Integers, Sequences, FiniteSets, TLC

\* ------------------------------------------------------------------ bounds
\* Number of user events (handler invocations) explored from start-up.
MaxEvents == 3
\* User events explored in the narrower scenarios (see the end of the module).
MaxEditEvents == 4
MaxFillEvents == 5
MaxApiEvents == 6
\* User events explored when the undo stack is filled past its capacity.
MaxCapEvents == 53
\* User events explored, and the size of the grid, when the pool is cleaned up.
MaxEvictEvents == 2
\* User events explored when a ChangeSet outlives the grid it was recorded on.
MaxStaleEvents == 6
\* User events explored when the zoom slider is moved in bursts.
MaxZoomEvents == 4
\* User events explored when the selection overlay is watched.
MaxOverlayEvents == 3
\* User events explored when a canvas item is destroyed behind the pool.
MaxDestroyedEvents == 3
\* User events explored when painting sessions are followed to their end.
MaxPaintEvents == 3
\* User events explored when a large grid is scrolled through.
MaxExploreEvents == 3
BigRows == 100
BigCols == 34
\* Pending after_idle callbacks the model lets pile up before they are run.
MaxIdle == 4
\* Pending after(ms) timers the model lets pile up before they fire.
MaxTimers == 3

\* ------------------------------------------------------- program constants
base_cell_width == 20
base_cell_height == 20
max_undo == 50
cleanup_threshold == 2000
\* safe_cleanup_canvas_objects: buffer_cells, and the pool size below which
\* the cleanup returns at once
buffer_cells == 50
MinPoolForCleanup == 1000
\* progressive_visual_update: batch_size, the largest chunk of the batched
\* routines (never called)
batch_size == 100
\* _force_complete_redraw_after_zoom: buffer_cells
zoom_buffer_cells == 10

SPACE == " "

\* The last handler returned normally.
NoException == ""

\* What a pool entry shows when the canvas items it names have been deleted.
Destroyed == "<destroyed>"

Max(a, b) == IF a >= b THEN a ELSE b
Min(a, b) == IF a <= b THEN a ELSE b

\* The coordinates of an r x c array.
Coords(r, c) == (0 .. (r - 1)) \X (0 .. (c - 1))

\* ------------------------------------------------------------------ inputs
\* Files offered to load_text_file: a sequence of lines, each a sequence of
\* characters (the trailing newline already stripped).  FileRagged has a
\* short line, FileEmpty has no line at all (max() of nothing raises).
FileRagged == << <<SPACE, "#">>, <<SPACE>>, <<"#", SPACE>>, <<"#", "#">> >>
FileWide == << <<SPACE, "#", SPACE>>, <<"#", SPACE, SPACE>> >>
FileEmpty == << >>
Files == {FileRagged, FileWide, FileEmpty}

\* Window size of the canvas in pixels (winfo_width, winfo_height).
CanvasSizes == {<<30, 30>>}
\* Pointer positions (event.x, event.y), inside the window.
PointerXs == {5, 25}
PointerYs == {5, 25}
\* Pointer x of a drag: the pointer may leave the window with the button held.
DragXs == {5, 25, 35}
\* Scrollbar targets (pixels) and mouse-wheel notches (event.delta / 120).
ScrollTargets == {0, 15, 30}
WheelNotches == {-5, 5}
\* Slider values of the zoom scale (10..190).
ZoomValues == {25, 50, 100, 150}
\* Brush sizes of the Brush Size menu that the model offers.
BrushSizes == {1, 2}
\* Characters typed with a selection.
KeyChars == {"x", SPACE}

VARIABLES
    grid,                   \* self.grid: [shape -> char]; empty before a load
    rows, cols,             \* self.rows, self.cols
    selected_cells,         \* self.selected_cells
    select_spaces_only,     \* self.select_spaces_only
    paintbrush_size,        \* self.paintbrush_size
    undo_stack,             \* self.undo_stack: Seq of ChangeSets
    grid_log,               \* history: the grid as it was before each pushed edit
    cell_width, cell_height,\* self.cell_width, self.cell_height
    zoom_percentage,        \* self.zoom_percentage (the slider's variable)
    canvas_width, canvas_height, \* canvas.winfo_width(), winfo_height()
    scroll_x, scroll_y,     \* canvas.canvasx(0), canvas.canvasy(0)
    region_w, region_h,     \* the canvas scrollregion (0, 0, w, h)
    canvas_objects,         \* self.canvas_objects: [coords -> text shown]
    previous_visible_range, \* self.previous_visible_range
    canvas_operation_count, \* self.canvas_operation_count
    selection_rects,        \* cells with a canvas item tagged 'selection'
    currently_painting,     \* self._currently_painting
    debug_update_pending,   \* self._debug_update_pending
    idle_queue,             \* callbacks registered with after_idle, FIFO
    timers,                 \* callbacks registered with after(ms), in order
    nevents,                \* number of user events handled so far
    last_op,                \* the last handler or callback that ran
    uncaught                \* the exception that escaped from it, if any

gridVars == <<grid, rows, cols>>
selVars == <<selected_cells, select_spaces_only, paintbrush_size>>
viewVars == <<cell_width, cell_height, zoom_percentage, canvas_width,
              canvas_height, scroll_x, scroll_y, region_w, region_h>>
poolVars == <<canvas_objects, previous_visible_range, canvas_operation_count,
              selection_rects>>
schedVars == <<idle_queue, timers, debug_update_pending>>
ghostVars == <<grid_log, nevents, last_op>>
vars == <<gridVars, selVars, undo_stack, viewVars, poolVars, schedVars,
          currently_painting, ghostVars, uncaught>>

\* --------------------------------------------------------------- viewport
\* The viewport a handler reads: grid size, scroll offset, cell size, window.
View(r, c, sx, sy, cw, ch, W, H) ==
    [rows |-> r, cols |-> c, sx |-> sx, sy |-> sy, cw |-> cw, ch |-> ch,
     W |-> W, H |-> H]

CurView == View(rows, cols, scroll_x, scroll_y, cell_width, cell_height,
                canvas_width, canvas_height)

\* start = max(0, int(p1 // cell) - before); end = min(n, int(p2 // cell) + after)
RangeStart(p1, cell, before) == Max(0, (p1 \div cell) - before)
\* (mutant: the end is not clipped to the grid)
RangeEnd_unclipped(p2, cell, n, after) == (p2 \div cell) + after
RangeEnd(p2, cell, n, after) == Min(n, (p2 \div cell) + after)

\* set((r, c) for r in range(start_row, end_row) for c in range(start_col, end_col))
CellRange(V, before, after) ==
    (RangeStart(V.sy, V.ch, before) .. (RangeEnd(V.sy + V.H, V.ch, V.rows, after) - 1))
    \X
    (RangeStart(V.sx, V.cw, before) .. (RangeEnd(V.sx + V.W, V.cw, V.cols, after) - 1))

\* The renderer's visible range: _redraw_visible_cells' visible_set.
VisibleRange(V) == CellRange(V, 0, 1)

\* if 0 <= row < self.rows and 0 <= col < self.cols
InBounds(V, k) == k[1] >= 0 /\ k[1] < V.rows /\ k[2] >= 0 /\ k[2] < V.cols

\* The Tk canvas keeps the view inside the scrollregion (confine).
Confine(offset, region, window) == Max(0, Min(offset, region - window))

\* update_scrollregion: (0, 0, max(cols * cell_width, winfo_width), ...)
ScrollRegion(n, cell, window) == Max(n * cell, window)

\* ------------------------------------------------------------------- pool
\* simple_update_canvas_object, for each cell of `cells`: the handle of the
\* cell shows the character passed in, and is created when it is missing.
\* (update_canvas_object and redraw_cell end in the same pool.)
ShowCells(pool, cells, g) ==
    [k \in (DOMAIN pool) \cup cells |-> IF k \in cells THEN g[k] ELSE pool[k]]

\* _second_pass_redraw's loop body: only a cell with no pool entry is drawn.
CreateMissing(pool, cells, g) ==
    [k \in (DOMAIN pool) \cup cells |->
        IF k \in DOMAIN pool THEN pool[k] ELSE g[k]]

\* redraw_cell, for each cell of `cells`: bounds check, then the handle shows
\* the grid's character.
RedrawCells(V, pool, cells, g) ==
    ShowCells(pool, {k \in cells : InBounds(V, k)}, g)

\* -------------------------------------------------------------- scheduler
Timer(cb, ms, held) == [cb |-> cb, ms |-> ms, held |-> held]

RECURSIVE SeqFilterOut(_, _)
\* after_cancel(id) for the id kept in the handle slot of callback cb.
SeqFilterOut(ts, cb) ==
    IF ts = << >> THEN << >>
    ELSE IF Head(ts).cb = cb /\ Head(ts).held
         THEN SeqFilterOut(Tail(ts), cb)
         ELSE <<Head(ts)>> \o SeqFilterOut(Tail(ts), cb)

\* if self.<slot>: after_cancel(self.<slot>); self.<slot> = after(ms, cb)
Reschedule(ts, cb, ms) == Append(SeqFilterOut(ts, cb), Timer(cb, ms, TRUE))

\* after(ms, cb) whose id is not kept
Schedule(ts, cb, ms) == Append(ts, Timer(cb, ms, FALSE))

\* The timer at position i is due no later than every timer registered
\* before it: an earlier timer with a delay no longer than its own fires first.
CanFire(ts, i) == \A j \in 1 .. (i - 1) : ts[j].ms > ts[i].ms

RemoveAt(s, i) == SubSeq(s, 1, i - 1) \o SubSeq(s, i + 1, Len(s))

\* Number of timers pending or about to be registered by a queued idle callback.
PendingTimers ==
    Len(timers)
    + Cardinality({i \in 1 .. Len(idle_queue) :
                     idle_queue[i] = "_force_complete_redraw_after_zoom"})

\* ---------------------------------------------------- rendering callbacks
\* The part of the state the rendering callbacks write.
\* (rects: the overlay rectangles; sel: self.selected_cells, which they read.)
Render(pool, prev, ts, dbg, rects, sel) ==
    [pool |-> pool, prev |-> prev, timers |-> ts, dbg |-> dbg,
     rects |-> rects, sel |-> sel]

CurRender == Render(canvas_objects, previous_visible_range, timers,
                    debug_update_pending, selection_rects, selected_cells)

\* (mutant: the delta is taken the wrong way round)
_redraw_visible_cells_reversed_delta(R, V, g) ==
    LET visible_set == VisibleRange(V)
        delta_set == R.prev \ visible_set
    IN [R EXCEPT !.pool = ShowCells(R.pool, {k \in delta_set : InBounds(V, k)}, g),
                 !.prev = visible_set]

_redraw_visible_cells(R, V, g) ==
    LET visible_set == VisibleRange(V)
        delta_set == visible_set \ R.prev
    IN [R EXCEPT !.pool = ShowCells(R.pool, {k \in delta_set : InBounds(V, k)}, g),
                 !.prev = visible_set]

\* (mutant: the forced redraw records the range without drawing it)
_redraw_visible_cells_force_tracking_only(R, V, g) ==
    [R EXCEPT !.prev = CellRange(V, 0, 2)]

_redraw_visible_cells_force_complete(R, V, g) ==
    LET range == CellRange(V, 0, 2)
    IN [R EXCEPT !.pool = ShowCells(R.pool, {k \in range : InBounds(V, k)}, g),
                 !.prev = range]

_force_complete_redraw_after_zoom(R, V, g) ==
    LET range == CellRange(V, zoom_buffer_cells, zoom_buffer_cells + 1)
    IN [R EXCEPT !.pool = ShowCells(R.pool, {k \in range : InBounds(V, k)}, g),
                 !.prev = range,
                 !.timers = Schedule(R.timers, "_second_pass_redraw", 200)]

_second_pass_redraw(R, V, g) ==
    LET range == CellRange(V, 0, 2)
    IN [R EXCEPT !.pool = CreateMissing(R.pool, {k \in range : InBounds(V, k)}, g)]

\* (mutant: the resync also prunes the selection to the cells it drew)
_sync_selection_pruning(R, V, g) ==
    [R EXCEPT !.rects = {k \in R.sel \cap VisibleRange(V) : InBounds(V, k)},
              !.sel = R.sel \cap VisibleRange(V)]

\* _sync_selection_after_scroll: canvas.delete('selection'), then one
\* rectangle for each selected cell of the visible area.
_sync_selection_after_scroll(R, V, g) ==
    [R EXCEPT !.rects = {k \in R.sel \cap VisibleRange(V) : InBounds(V, k)}]

\* _update_selection_with_colors: nothing while painting; else
\* canvas.delete('selection'), then one rectangle for each selected cell of
\* previous_visible_range.
_update_selection_with_colors(R, V, painting) ==
    IF painting THEN R
    ELSE [R EXCEPT !.rects = {k \in R.sel \cap R.prev : InBounds(V, k)}]

_update_debug_label(R, V, g) == [R EXCEPT !.dbg = FALSE]

\* One callback registered with after_idle.
RunIdleCallback(cb, R, V, g) ==
    CASE cb = "_redraw_visible_cells" -> _redraw_visible_cells(R, V, g)
      [] cb = "_sync_selection_after_scroll" -> _sync_selection_after_scroll(R, V, g)
      [] cb = "_force_complete_redraw_after_zoom" ->
            _force_complete_redraw_after_zoom(R, V, g)
      [] cb = "_update_debug_label" -> _update_debug_label(R, V, g)

RECURSIVE update_idletasks(_, _, _, _)
\* canvas.update_idletasks(): every pending idle callback runs, in order.
update_idletasks(q, R, V, g) ==
    IF q = << >> THEN R
    ELSE update_idletasks(Tail(q), RunIdleCallback(Head(q), R, V, g), V, g)

\* ------------------------------------------------------------ grid edits
EmptyGrid == [k \in {} |-> SPACE]
EmptyPool == [k \in {} |-> SPACE]

\* max(len(line.rstrip('\n')) for line in lines), for a file with a line
MaxLineLen(file) ==
    CHOOSE n \in {Len(file[i]) : i \in 1 .. Len(file)} :
        \A i \in 1 .. Len(file) : Len(file[i]) <= n

\* np.full((rows, cols), ord(' ')) overwritten with the characters of each line
LoadedGrid(file) ==
    [k \in Coords(Len(file), MaxLineLen(file)) |->
        IF k[2] + 1 <= Len(file[k[1] + 1]) THEN file[k[1] + 1][k[2] + 1] ELSE SPACE]

\* (mutant: the block is the anchor cell alone)
BrushBlock_anchor_only(row, col, n, r, c) ==
    {k \in {<<row, col>>} : k[1] >= 0 /\ k[1] < r /\ k[2] >= 0 /\ k[2] < c}

\* The brush block: rows row..row+N-1, cols col..col+N-1, clipped to the grid.
BrushBlock(row, col, n, r, c) ==
    {k \in (row .. (row + n - 1)) \X (col .. (col + n - 1)) :
        k[1] >= 0 /\ k[1] < r /\ k[2] >= 0 /\ k[2] < c}

\* col = int(canvasx(event.x) // cell_width); row likewise
AnchorRow(y) == (scroll_y + y) \div cell_height
AnchorCol(x) == (scroll_x + x) \div cell_width

\* (mutant: the stamp replaces the selection instead of extending it)
apply_brush_replacing(sel, x, y) ==
    LET row == AnchorRow(y)
        col == AnchorCol(x)
        new_selections ==
            {k \in BrushBlock(row, col, paintbrush_size, rows, cols) :
                select_spaces_only => grid[k] = SPACE}
    IN IF x < 0 \/ x >= canvas_width \/ y < 0 \/ y >= canvas_height
       THEN sel
       ELSE IF row < 0 \/ row >= rows \/ col < 0 \/ col >= cols
       THEN sel
       ELSE new_selections

\* (mutant: the space-only mode is not consulted)
apply_brush_any_char(sel, x, y) ==
    LET row == AnchorRow(y)
        col == AnchorCol(x)
    IN IF x < 0 \/ x >= canvas_width \/ y < 0 \/ y >= canvas_height
       THEN sel
       ELSE IF row < 0 \/ row >= rows \/ col < 0 \/ col >= cols
       THEN sel
       ELSE sel \cup BrushBlock(row, col, paintbrush_size, rows, cols)

\* apply_brush: the selection after a stamp with the pointer at (x, y).
apply_brush(sel, x, y) ==
    LET row == AnchorRow(y)
        col == AnchorCol(x)
        new_selections ==
            {k \in BrushBlock(row, col, paintbrush_size, rows, cols) :
                select_spaces_only => grid[k] = SPACE}
    IN IF x < 0 \/ x >= canvas_width \/ y < 0 \/ y >= canvas_height
       THEN sel
       ELSE IF row < 0 \/ row >= rows \/ col < 0 \/ col >= cols
       THEN sel
       ELSE sel \cup new_selections

\* (mutant: a full stack drops the new entry, not the oldest)
Push_dropping_newest(stack, undo_action) ==
    IF Len(stack) >= max_undo THEN stack ELSE Append(stack, undo_action)

\* undo_stack.append(undo_action); if len(undo_stack) > max_undo: pop(0)
Push(stack, undo_action) ==
    LET s == Append(stack, undo_action)
    IN IF Len(s) > max_undo THEN Tail(s) ELSE s

\* (mutant: only the selected cells that hold a space are written)
FilledGrid_spaces_only(g, sel, r, c, char) ==
    [k \in DOMAIN g |->
        IF k \in sel /\ k[1] < r /\ k[2] < c /\ g[k] = SPACE THEN char ELSE g[k]]

\* The characters a keypress writes: every selected in-bounds cell gets char.
FilledGrid(g, sel, r, c, char) ==
    [k \in DOMAIN g |->
        IF k \in sel /\ k[1] < r /\ k[2] < c THEN char ELSE g[k]]

\* (mutant: every cell is recorded, changed or not)
UndoAction_all_cells(g, g2) ==
    {<<k[1], k[2], g[k]>> : k \in DOMAIN g}

\* (mutant: the new character is recorded instead of the old one)
UndoAction_new_char(g, g2) ==
    {<<k[1], k[2], g2[k]>> : k \in {j \in DOMAIN g : g2[j] # g[j]}}

\* undo_action: (row, col, old_char) of every cell whose character changed.
UndoAction(g, g2) ==
    {<<k[1], k[2], g[k]>> : k \in {j \in DOMAIN g : g2[j] # g[j]}}

Changed(g, g2) == {k \in DOMAIN g : g2[k] # g[k]}

\* Terrain characters generate_biome may write (forest profile), and the
\* biome maps offered: biome_map[i][j] as a function of the offsets (i, j).
BiomeMaps == {"grass", "trees", "mixed"}
biome_map(m, i, j) ==
    CASE m = "grass" -> "."
      [] m = "trees" -> "f"
      [] m = "mixed" -> IF (i + j) % 2 = 0 THEN "." ELSE "f"

MinOf(S) == CHOOSE n \in S : \A m \in S : n <= m

\* (mutant: every cell of the bounding box is written, selected or not)
BiomeGrid_whole_box(g, sel, m) ==
    LET min_row == MinOf({k[1] : k \in sel})
        min_col == MinOf({k[2] : k \in sel})
    IN [k \in DOMAIN g |->
          IF \E a, b, c, d \in sel :
                /\ a[1] <= k[1] /\ k[1] <= b[1]
                /\ c[2] <= k[2] /\ k[2] <= d[2]
          THEN biome_map(m, k[1] - min_row, k[2] - min_col) ELSE g[k]]

\* generate_biome's write loop over the bounding box of the selection.
BiomeGrid(g, sel, m) ==
    LET min_row == MinOf({k[1] : k \in sel})
        min_col == MinOf({k[2] : k \in sel})
    IN [k \in DOMAIN g |->
          IF k \in sel THEN biome_map(m, k[1] - min_row, k[2] - min_col) ELSE g[k]]

\* undo's loop: the entries restored, all of them unless one lies outside
\* the array (IndexError leaves the entries before it restored).
InShape(g, action) == {e \in action : <<e[1], e[2]>> \in DOMAIN g}

RestoredGrid(g, entries) ==
    [k \in DOMAIN g |->
        IF \E e \in entries : e[1] = k[1] /\ e[2] = k[2]
        THEN (CHOOSE e \in entries : e[1] = k[1] /\ e[2] = k[2])[3]
        ELSE g[k]]

\* update_selection: nothing while painting, else the deferred overlay
\* update is (re)registered.
update_selection(ts, painting) ==
    IF painting THEN ts
    ELSE Reschedule(ts, "_update_selection_with_colors", 100)

\* (mutant: no buffer before the first visible row and column)
safe_cleanup_no_buffer_before(pool, V) ==
    LET visible_start_row == Max(0, V.sy \div V.ch)
        visible_end_row == Min(V.rows, ((V.sy + V.H) \div V.ch) + buffer_cells)
        visible_start_col == Max(0, V.sx \div V.cw)
        visible_end_col == Min(V.cols, ((V.sx + V.W) \div V.cw) + buffer_cells)
        to_remove == {k \in DOMAIN pool :
                        \/ k[1] < visible_start_row \/ k[1] > visible_end_row
                        \/ k[2] < visible_start_col \/ k[2] > visible_end_col}
    IN IF Cardinality(DOMAIN pool) < MinPoolForCleanup THEN pool
       ELSE [k \in (DOMAIN pool) \ to_remove |-> pool[k]]

\* safe_cleanup_canvas_objects: the pool after the cleanup.
safe_cleanup_canvas_objects(pool, V) ==
    LET visible_start_row == Max(0, (V.sy \div V.ch) - buffer_cells)
        visible_end_row == Min(V.rows, ((V.sy + V.H) \div V.ch) + buffer_cells)
        visible_start_col == Max(0, (V.sx \div V.cw) - buffer_cells)
        visible_end_col == Min(V.cols, ((V.sx + V.W) \div V.cw) + buffer_cells)
        to_remove == {k \in DOMAIN pool :
                        \/ k[1] < visible_start_row \/ k[1] > visible_end_row
                        \/ k[2] < visible_start_col \/ k[2] > visible_end_col}
    IN IF Cardinality(DOMAIN pool) < MinPoolForCleanup THEN pool
       ELSE [k \in (DOMAIN pool) \ to_remove |-> pool[k]]

\* (mutant: the end of a painting session also empties the selection)
FinishPainting_clearing_selection(R, V, g, q, count) ==
    update_idletasks(q, [R EXCEPT !.sel = {}, !.rects = {}], V, g)

\* _finish_painting_session as a function of the rendering state.
FinishPainting(R, V, g, q, count) ==
    LET R1 == IF count > cleanup_threshold
              THEN [R EXCEPT !.pool = safe_cleanup_canvas_objects(R.pool, V)]
              ELSE R
    IN update_idletasks(q, R1, V, g)

\* (mutant: the view goes back to the origin)
MoveTo_origin(new_scroll2, total, region, window) == 0

\* canvas.xview_moveto(max(0, min(1, new_scroll / total))): the new origin,
\* int(fraction * region + 0.5), confined; new_scroll2 is twice new_scroll.
MoveTo(new_scroll2, total, region, window) ==
    LET clamped2 == Max(0, Min(2 * total, new_scroll2))
    IN Confine((clamped2 * region + total) \div (2 * total), region, window)

\* int(base * (zoom_percentage / 100))
ZoomedCell(base, zp) == (base * zp) \div 100

\* ---------------------------------------------------------- bookkeeping
SetRender(R) ==
    /\ canvas_objects' = R.pool
    /\ previous_visible_range' = R.prev
    /\ timers' = R.timers
    /\ debug_update_pending' = R.dbg
    /\ selection_rects' = R.rects
    /\ selected_cells' = R.sel

\* A user event handled by `op`, from which the exception `exc` escapes
\* (Tk reports it and goes on with the event loop).
EventRaising(op, exc) ==
    /\ nevents' = nevents + 1
    /\ last_op' = op
    /\ uncaught' = exc

\* A user event handled by `op`, which returns normally.
Event(op) == EventRaising(op, NoException)

\* A deferred callback run by the Tk event loop, from which `exc` escapes.
CallbackRaising(op, exc) ==
    /\ nevents' = nevents
    /\ last_op' = op
    /\ uncaught' = exc

\* A deferred callback that returns normally.
Callback(op) == CallbackRaising(op, NoException)

\* --------------------------------------------------------------- start
\* The editor after __init__ and the first <Configure> of the canvas.
Init ==
    /\ grid = EmptyGrid
    /\ rows = 0
    /\ cols = 0
    /\ selected_cells = {}
    /\ select_spaces_only = FALSE
    /\ paintbrush_size = 1
    /\ undo_stack = << >>
    /\ grid_log = << >>
    /\ cell_width = base_cell_width
    /\ cell_height = base_cell_height
    /\ zoom_percentage = 100
    /\ \E size \in CanvasSizes :
         /\ canvas_width = size[1]
         /\ canvas_height = size[2]
         /\ region_w = size[1]
         /\ region_h = size[2]
    /\ scroll_x = 0
    /\ scroll_y = 0
    /\ canvas_objects = EmptyPool
    /\ previous_visible_range = {}
    /\ canvas_operation_count = 0
    /\ selection_rects = {}
    /\ currently_painting = FALSE
    /\ debug_update_pending = FALSE
    /\ idle_queue = << >>
    /\ timers = << >>
    /\ nevents = 0
    /\ last_op = "__init__"
    /\ uncaught = NoException

\* ---------------------------------------------------------- user events
\* load_text_file.  An unreadable file raises before anything is assigned;
\* a file without lines raises at max() after self.rows has been assigned.
load_text_file(file, readable) ==
    /\ PendingTimers < MaxTimers
    /\ Event("load_text_file")
    /\ IF ~readable
       THEN UNCHANGED <<gridVars, selVars, undo_stack, grid_log, viewVars,
                        poolVars, schedVars, currently_painting>>
       ELSE IF Len(file) = 0
       THEN /\ rows' = 0
            /\ UNCHANGED <<grid, cols, selVars, undo_stack, grid_log, viewVars,
                           poolVars, schedVars, currently_painting>>
       ELSE LET r == Len(file)
                c == MaxLineLen(file)
                g == LoadedGrid(file)
                rw == ScrollRegion(c, cell_width, canvas_width)
                rh == ScrollRegion(r, cell_height, canvas_height)
                V == View(r, c, Confine(scroll_x, rw, canvas_width),
                          Confine(scroll_y, rh, canvas_height),
                          cell_width, cell_height, canvas_width, canvas_height)
                R0 == Render(EmptyPool, {}, timers, debug_update_pending, {}, {})
                R1 == update_idletasks(idle_queue, R0, V, g)
                R2 == _redraw_visible_cells_force_complete(R1, V, g)
            IN /\ grid' = g
               /\ rows' = r
               /\ cols' = c
               /\ selected_cells' = {}
               /\ grid_log' = << >>
               /\ region_w' = rw
               /\ region_h' = rh
               /\ scroll_x' = 0
               /\ scroll_y' = 0
               /\ canvas_objects' = R2.pool
               /\ previous_visible_range' = R2.prev
               /\ canvas_operation_count' = 0
               /\ selection_rects' = R2.rects
               /\ idle_queue' = << >>
               /\ timers' = Schedule(R2.timers,
                                     "_redraw_visible_cells_force_complete", 100)
               /\ debug_update_pending' = R2.dbg
               /\ UNCHANGED <<select_spaces_only, paintbrush_size, undo_stack,
                              cell_width, cell_height, zoom_percentage,
                              canvas_width, canvas_height, currently_painting>>

\* on_vertical_scroll: the scrollbar moves the view to offset t.
on_vertical_scroll(t) ==
    /\ Len(idle_queue) + 2 <= MaxIdle
    /\ Event("on_vertical_scroll")
    /\ scroll_y' = Confine(t, region_h, canvas_height)
    /\ idle_queue' = idle_queue \o
                       <<"_redraw_visible_cells", "_sync_selection_after_scroll">>
    /\ UNCHANGED <<gridVars, selVars, undo_stack, grid_log, cell_width,
                   cell_height, zoom_percentage, canvas_width, canvas_height,
                   scroll_x, region_w, region_h, poolVars, timers,
                   debug_update_pending, currently_painting>>

on_horizontal_scroll(t) ==
    /\ Len(idle_queue) + 2 <= MaxIdle
    /\ Event("on_horizontal_scroll")
    /\ scroll_x' = Confine(t, region_w, canvas_width)
    /\ idle_queue' = idle_queue \o
                       <<"_redraw_visible_cells", "_sync_selection_after_scroll">>
    /\ UNCHANGED <<gridVars, selVars, undo_stack, grid_log, cell_width,
                   cell_height, zoom_percentage, canvas_width, canvas_height,
                   scroll_y, region_w, region_h, poolVars, timers,
                   debug_update_pending, currently_painting>>

\* on_mousewheel: yview_scroll(int(-1 * (delta / 120)), "units"); a unit is
\* a tenth of the window height.
on_mousewheel(notches) ==
    /\ Len(idle_queue) + 1 <= MaxIdle
    /\ Event("on_mousewheel")
    /\ scroll_y' = Confine(scroll_y - notches * (canvas_height \div 10),
                           region_h, canvas_height)
    /\ idle_queue' = Append(idle_queue, "_redraw_visible_cells")
    /\ UNCHANGED <<gridVars, selVars, undo_stack, grid_log, cell_width,
                   cell_height, zoom_percentage, canvas_width, canvas_height,
                   scroll_x, region_w, region_h, poolVars, timers,
                   debug_update_pending, currently_painting>>

\* (mutant: the pending resize is not cancelled)
on_zoom_without_cancel(value) ==
    /\ PendingTimers < MaxTimers
    /\ Event("on_zoom")
    /\ zoom_percentage' = value
    /\ timers' = Append(timers, Timer("_on_zoom", 100, TRUE))
    /\ UNCHANGED <<gridVars, selVars, undo_stack, grid_log, cell_width,
                   cell_height, canvas_width, canvas_height, scroll_x, scroll_y,
                   region_w, region_h, poolVars, idle_queue,
                   debug_update_pending, currently_painting>>

\* on_zoom: the slider has stored its value; the resize is debounced.
on_zoom(value) ==
    /\ PendingTimers < MaxTimers
    /\ Event("on_zoom")
    /\ zoom_percentage' = value
    /\ timers' = Reschedule(timers, "_on_zoom", 100)
    /\ UNCHANGED <<gridVars, selVars, undo_stack, grid_log, cell_width,
                   cell_height, canvas_width, canvas_height, scroll_x, scroll_y,
                   region_w, region_h, poolVars, idle_queue,
                   debug_update_pending, currently_painting>>

\* on_canvas_configure: the window has its new size.
on_canvas_configure(size) ==
    LET rw == ScrollRegion(cols, cell_width, size[1])
        rh == ScrollRegion(rows, cell_height, size[2])
    IN /\ PendingTimers < MaxTimers
       /\ Event("on_canvas_configure")
       /\ canvas_width' = size[1]
       /\ canvas_height' = size[2]
       /\ region_w' = rw
       /\ region_h' = rh
       /\ scroll_x' = Confine(scroll_x, rw, size[1])
       /\ scroll_y' = Confine(scroll_y, rh, size[2])
       /\ timers' = Schedule(timers, "_redraw_visible_cells", 100)
       /\ UNCHANGED <<gridVars, selVars, undo_stack, grid_log, cell_width,
                      cell_height, zoom_percentage, poolVars, idle_queue,
                      debug_update_pending, currently_painting>>

\* on_click: Ctrl+click removes the selected cells of the brush block, a
\* plain click stamps the brush.
on_click(x, y, ctrl_held) ==
    LET row == AnchorRow(y)
        col == AnchorCol(x)
        cells_to_remove ==
            BrushBlock(row, col, paintbrush_size, rows, cols) \cap selected_cells
    IN /\ PendingTimers < MaxTimers
       /\ Event(IF ctrl_held THEN "on_click_ctrl" ELSE "on_click")
       /\ IF ctrl_held
          THEN /\ selected_cells' = selected_cells \ cells_to_remove
               /\ selection_rects' = selection_rects
               /\ timers' = IF cells_to_remove # {}
                            THEN update_selection(timers, currently_painting)
                            ELSE timers
          ELSE /\ selected_cells' = apply_brush(selected_cells, x, y)
               /\ selection_rects' = selection_rects
                      \cup (apply_brush(selected_cells, x, y) \ selected_cells)
               /\ timers' = update_selection(timers, currently_painting)
       /\ UNCHANGED <<gridVars, select_spaces_only, paintbrush_size, undo_stack,
                      grid_log, viewVars, canvas_objects,
                      previous_visible_range, canvas_operation_count,
                      idle_queue, debug_update_pending, currently_painting>>

\* (mutant: the drag does not arm the end-of-painting timer)
on_drag_without_timer(x, y) ==
    /\ PendingTimers < MaxTimers
    /\ Len(idle_queue) < MaxIdle
    /\ Event("on_drag")
    /\ currently_painting' = TRUE
    /\ selected_cells' = apply_brush(selected_cells, x, y)
    /\ selection_rects' = selection_rects
           \cup (apply_brush(selected_cells, x, y) \ selected_cells)
    /\ IF debug_update_pending
       THEN UNCHANGED <<debug_update_pending, idle_queue>>
       ELSE /\ debug_update_pending' = TRUE
            /\ idle_queue' = Append(idle_queue, "_update_debug_label")
    /\ UNCHANGED <<gridVars, select_spaces_only, paintbrush_size, undo_stack,
                   grid_log, viewVars, canvas_objects, previous_visible_range,
                   canvas_operation_count, timers>>

\* on_drag: stamps the brush, marks the painting session, registers the
\* debug-label update once and re-arms the end-of-painting timer.
on_drag(x, y) ==
    /\ PendingTimers < MaxTimers
    /\ Len(idle_queue) < MaxIdle
    /\ Event("on_drag")
    /\ currently_painting' = TRUE
    /\ selected_cells' = apply_brush(selected_cells, x, y)
    /\ selection_rects' = selection_rects
           \cup (apply_brush(selected_cells, x, y) \ selected_cells)
    /\ IF debug_update_pending
       THEN UNCHANGED <<debug_update_pending, idle_queue>>
       ELSE /\ debug_update_pending' = TRUE
            /\ idle_queue' = Append(idle_queue, "_update_debug_label")
    /\ timers' = Reschedule(timers, "_finish_painting_session", 500)
    /\ UNCHANGED <<gridVars, select_spaces_only, paintbrush_size, undo_stack,
                   grid_log, viewVars, canvas_objects, previous_visible_range,
                   canvas_operation_count>>

on_release(ctrl_held) ==
    /\ PendingTimers < MaxTimers
    /\ Event(IF ctrl_held THEN "on_release_ctrl" ELSE "on_release")
    /\ IF ctrl_held
       THEN UNCHANGED <<currently_painting, timers>>
       ELSE /\ currently_painting' = FALSE
            /\ timers' = Schedule(timers, "_finish_painting_session", 100)
    /\ UNCHANGED <<gridVars, selVars, undo_stack, grid_log, viewVars, poolVars,
                   idle_queue, debug_update_pending>>

\* on_keypress: fills the selection with char, records the changed cells,
\* refreshes those inside its visible area.  (g2, undo_action and
\* visible_updates are each bound to one value.)
on_keypress(char) ==
    /\ Event("on_keypress")
    /\ IF selected_cells = {}
       THEN UNCHANGED <<grid, undo_stack, grid_log, selected_cells,
                        canvas_objects, previous_visible_range,
                        selection_rects, schedVars>>
       ELSE \E g2 \in {FilledGrid(grid, selected_cells, rows, cols, char)} :
            \E undo_action \in {UndoAction(grid, g2)} :
            \E visible_updates \in {Changed(grid, g2) \cap VisibleRange(CurView)} :
              LET R1 == [CurRender EXCEPT
                           !.pool = ShowCells(canvas_objects, visible_updates, g2)]
                  R2 == IF visible_updates # {}
                        THEN update_idletasks(idle_queue, R1, CurView, g2)
                        ELSE R1
              IN /\ grid' = g2
                 /\ undo_stack' = IF undo_action # {}
                                  THEN Push(undo_stack, undo_action)
                                  ELSE undo_stack
                 /\ grid_log' = IF undo_action # {}
                                THEN Push(grid_log, grid)
                                ELSE grid_log
                 /\ SetRender(R2)
                 /\ idle_queue' = IF visible_updates # {} THEN << >> ELSE idle_queue
    /\ UNCHANGED <<rows, cols, select_spaces_only, paintbrush_size, viewVars,
                   canvas_operation_count, currently_painting>>

\* generate_biome: an empty selection is reported (showwarning);
\* SHAPE_GENERATORS[shape_type] raises KeyError for an unknown shape, before
\* the test that reports an unknown biome or shape (showerror); otherwise
\* every selected cell gets its biome_map character, the changed cells are
\* redrawn and recorded.
generate_biome(m, biome_known, shape_known) ==
    LET g2 == BiomeGrid(grid, selected_cells, m)
        undo_action == UndoAction(grid, g2)
    IN /\ PendingTimers < MaxTimers
       /\ EventRaising("generate_biome",
            IF selected_cells # {} /\ ~shape_known
            THEN "KeyError" ELSE NoException)
       /\ IF selected_cells = {} \/ ~biome_known \/ ~shape_known
          THEN UNCHANGED <<grid, undo_stack, grid_log, canvas_objects, timers>>
          ELSE /\ grid' = g2
               /\ canvas_objects' =
                    RedrawCells(CurView, canvas_objects, Changed(grid, g2), g2)
               /\ undo_stack' = IF undo_action # {}
                                THEN Push(undo_stack, undo_action)
                                ELSE undo_stack
               /\ grid_log' = IF undo_action # {}
                              THEN Push(grid_log, grid)
                              ELSE grid_log
               /\ timers' = update_selection(timers, currently_painting)
       /\ UNCHANGED <<rows, cols, selVars, viewVars, selection_rects,
                      previous_visible_range,
                      canvas_operation_count, idle_queue, debug_update_pending,
                      currently_painting>>

\* fill_selection: like the keypress fill, with redraw_cell for each change.
fill_selection(char) ==
    LET g2 == FilledGrid(grid, selected_cells, rows, cols, char)
        undo_action == UndoAction(grid, g2)
    IN /\ PendingTimers < MaxTimers
       /\ Event("fill_selection")
       /\ IF selected_cells = {}
          THEN UNCHANGED <<grid, undo_stack, grid_log, canvas_objects, timers>>
          ELSE /\ grid' = g2
               /\ canvas_objects' =
                    RedrawCells(CurView, canvas_objects, Changed(grid, g2), g2)
               /\ undo_stack' = IF undo_action # {}
                                THEN Push(undo_stack, undo_action)
                                ELSE undo_stack
               /\ grid_log' = IF undo_action # {}
                              THEN Push(grid_log, grid)
                              ELSE grid_log
               /\ timers' = update_selection(timers, currently_painting)
       /\ UNCHANGED <<rows, cols, selVars, viewVars, selection_rects,
                      previous_visible_range,
                      canvas_operation_count, idle_queue, debug_update_pending,
                      currently_painting>>

Front(s) == SubSeq(s, 1, Len(s) - 1)
Last(s) == s[Len(s)]

\* (mutant: with nothing to undo the selection is dropped)
undo_dropping_selection ==
    /\ PendingTimers < MaxTimers
    /\ Event("undo")
    /\ IF undo_stack = << >>
       THEN /\ selected_cells' = {}
            /\ UNCHANGED <<grid, undo_stack, grid_log, canvas_objects, timers>>
       ELSE LET last_action == Last(undo_stack)
            IN /\ undo_stack' = Front(undo_stack)
               /\ grid_log' = IF grid_log = << >> THEN << >> ELSE Front(grid_log)
               /\ grid' = RestoredGrid(grid, InShape(grid, last_action))
               /\ UNCHANGED <<selected_cells, canvas_objects, timers>>
    /\ UNCHANGED <<rows, cols, select_spaces_only, paintbrush_size, viewVars,
                   selection_rects, previous_visible_range,
                   canvas_operation_count, idle_queue,
                   debug_update_pending, currently_painting>>

\* undo: pops the last ChangeSet and writes its old characters back.  An
\* entry outside the array raises IndexError: the entries written before it
\* stay written and update_selection is not reached.
undo ==
    /\ PendingTimers < MaxTimers
    /\ EventRaising("undo",
         IF undo_stack # << >>
            /\ InShape(grid, Last(undo_stack)) # Last(undo_stack)
         THEN "IndexError" ELSE NoException)
    /\ IF undo_stack = << >>
       THEN UNCHANGED <<grid, undo_stack, grid_log, canvas_objects, timers>>
       ELSE LET last_action == Last(undo_stack)
            IN /\ undo_stack' = Front(undo_stack)
               /\ grid_log' = IF grid_log = << >> THEN << >> ELSE Front(grid_log)
               /\ \E done \in SUBSET last_action :
                    /\ done \subseteq InShape(grid, last_action)
                    /\ InShape(grid, last_action) = last_action => done = last_action
                    /\ grid' = RestoredGrid(grid, done)
                    /\ canvas_objects' =
                         RedrawCells(CurView, canvas_objects,
                                     {<<e[1], e[2]>> : e \in done}, grid')
                    /\ timers' = IF done = last_action
                                 THEN update_selection(timers, currently_painting)
                                 ELSE timers
    /\ UNCHANGED <<rows, cols, selVars, viewVars, selection_rects,
                      previous_visible_range,
                   canvas_operation_count, idle_queue, debug_update_pending,
                   currently_painting>>

\* toggle_space_selection: switching the mode on drops the selected cells
\* that are out of bounds or not a space.
toggle_space_selection ==
    /\ PendingTimers < MaxTimers
    /\ Event("toggle_space_selection")
    /\ select_spaces_only' = ~select_spaces_only
    /\ selected_cells' =
         IF ~select_spaces_only /\ selected_cells # {}
         THEN {k \in selected_cells : InBounds(CurView, k) /\ grid[k] = SPACE}
         ELSE selected_cells
    /\ selection_rects' = {}
    /\ timers' = update_selection(timers, currently_painting)
    /\ UNCHANGED <<gridVars, paintbrush_size, undo_stack, grid_log, viewVars,
                   canvas_objects, previous_visible_range,
                   canvas_operation_count, idle_queue, debug_update_pending,
                   currently_painting>>

clear_selection ==
    /\ Event("clear_selection")
    /\ SetRender(update_idletasks(idle_queue,
                   [CurRender EXCEPT !.rects = {}, !.sel = {}], CurView, grid))
    /\ idle_queue' = << >>
    /\ UNCHANGED <<gridVars, select_spaces_only, paintbrush_size, undo_stack,
                   grid_log, viewVars, canvas_operation_count,
                   currently_painting>>

set_paintbrush_size(size) ==
    /\ Event("set_paintbrush_size")
    /\ paintbrush_size' = size
    /\ UNCHANGED <<gridVars, selected_cells, select_spaces_only, undo_stack,
                   grid_log, viewVars, poolVars, schedVars, currently_painting>>

\* --------------------------------------------------- deferred callbacks
\* The timer registered for callback cb that may fire now, or 0.
Due(cb) ==
    IF \E i \in 1 .. Len(timers) : timers[i].cb = cb /\ CanFire(timers, i)
    THEN CHOOSE i \in 1 .. Len(timers) : timers[i].cb = cb /\ CanFire(timers, i)
    ELSE 0

\* _on_zoom: new cell size, pool and visible-range tracking reset, scroll
\* region updated, pending idle callbacks run, view moved so that the cell
\* at the old centre stays in the middle, full redraw registered.  With no
\* columns or no rows the print of the fractions raises NameError before
\* the redraw is registered.
Run_on_zoom ==
    LET i == Due("_on_zoom")
        cw == ZoomedCell(base_cell_width, zoom_percentage)
        ch == ZoomedCell(base_cell_height, zoom_percentage)
        center_col == (2 * scroll_x + canvas_width) \div (2 * cell_width)
        center_row == (2 * scroll_y + canvas_height) \div (2 * cell_height)
        rw == ScrollRegion(cols, cw, canvas_width)
        rh == ScrollRegion(rows, ch, canvas_height)
        sx0 == Confine(scroll_x, rw, canvas_width)
        sy0 == Confine(scroll_y, rh, canvas_height)
        V == View(rows, cols, sx0, sy0, cw, ch, canvas_width, canvas_height)
        R0 == Render(EmptyPool, {}, RemoveAt(timers, i), debug_update_pending,
                    {}, selected_cells)
        total_width == cols * cw
        total_height == rows * ch
    IN /\ i > 0
       /\ CallbackRaising("_on_zoom",
            IF total_width > 0 /\ total_height > 0
            THEN NoException ELSE "UnboundLocalError")
       /\ cell_width' = cw
       /\ cell_height' = ch
       /\ region_w' = rw
       /\ region_h' = rh
       /\ SetRender(update_idletasks(idle_queue, R0, V, grid))
       /\ canvas_operation_count' = 0
       /\ scroll_x' = IF total_width > 0
                      THEN MoveTo(2 * center_col * cw - canvas_width,
                                  total_width, rw, canvas_width)
                      ELSE sx0
       /\ scroll_y' = IF total_height > 0
                      THEN MoveTo(2 * center_row * ch - canvas_height,
                                  total_height, rh, canvas_height)
                      ELSE sy0
       /\ idle_queue' = IF total_width > 0 /\ total_height > 0
                        THEN <<"_force_complete_redraw_after_zoom">>
                        ELSE << >>
       /\ UNCHANGED <<gridVars, select_spaces_only, paintbrush_size, undo_stack,
                   grid_log, zoom_percentage,
                      canvas_width, canvas_height, currently_painting>>

\* A timer whose callback only renders.
RunRenderTimer(cb, R) ==
    /\ Callback(cb)
    /\ SetRender(R)
    /\ UNCHANGED <<gridVars, select_spaces_only, paintbrush_size, undo_stack,
                   grid_log, viewVars,
                   canvas_operation_count, idle_queue, currently_painting>>

TimersWithout(cb) ==
    [CurRender EXCEPT !.timers = RemoveAt(timers, Due(cb))]

Run_redraw_visible_cells_force_complete ==
    /\ Due("_redraw_visible_cells_force_complete") > 0
    /\ RunRenderTimer("_redraw_visible_cells_force_complete",
         _redraw_visible_cells_force_complete(
             TimersWithout("_redraw_visible_cells_force_complete"), CurView, grid))

Run_second_pass_redraw ==
    /\ Due("_second_pass_redraw") > 0
    /\ RunRenderTimer("_second_pass_redraw",
         _second_pass_redraw(TimersWithout("_second_pass_redraw"), CurView, grid))

\* The redraw on_canvas_configure registered with after(100).
Run_redraw_visible_cells ==
    /\ Due("_redraw_visible_cells") > 0
    /\ RunRenderTimer("_redraw_visible_cells",
         _redraw_visible_cells(TimersWithout("_redraw_visible_cells"), CurView, grid))

Run_update_selection_with_colors ==
    /\ Due("_update_selection_with_colors") > 0
    /\ RunRenderTimer("_update_selection_with_colors",
         _update_selection_with_colors(
             TimersWithout("_update_selection_with_colors"), CurView,
             currently_painting))

Run_finish_painting_session ==
    /\ Due("_finish_painting_session") > 0
    /\ Callback("_finish_painting_session")
    /\ currently_painting' = FALSE
    /\ SetRender(FinishPainting(TimersWithout("_finish_painting_session"),
                                CurView, grid, idle_queue, canvas_operation_count))
    /\ canvas_operation_count' =
         IF canvas_operation_count > cleanup_threshold THEN 0
         ELSE canvas_operation_count
    /\ idle_queue' = << >>
    /\ UNCHANGED <<gridVars, select_spaces_only, paintbrush_size, undo_stack,
                   grid_log, viewVars>>

\* The event loop is idle: the oldest after_idle callback runs.
RunIdle ==
    /\ idle_queue # << >>
    /\ Callback(Head(idle_queue))
    /\ SetRender(RunIdleCallback(Head(idle_queue), CurRender, CurView, grid))
    /\ idle_queue' = Tail(idle_queue)
    /\ UNCHANGED <<gridVars, select_spaces_only, paintbrush_size, undo_stack,
                   grid_log, viewVars,
                   canvas_operation_count, currently_painting>>

\* ------------------------------------------------------- specification
Budget == nevents < MaxEvents

Next ==
    \/ Budget /\ \E file \in Files, readable \in BOOLEAN : load_text_file(file, readable)
    \/ Budget /\ \E t \in ScrollTargets : on_vertical_scroll(t)
    \/ Budget /\ \E t \in ScrollTargets : on_horizontal_scroll(t)
    \/ Budget /\ \E n \in WheelNotches : on_mousewheel(n)
    \/ Budget /\ \E z \in ZoomValues : on_zoom(z)
    \/ Budget /\ \E size \in CanvasSizes : on_canvas_configure(size)
    \/ Budget /\ \E x \in PointerXs, y \in PointerYs, ctrl \in BOOLEAN : on_click(x, y, ctrl)
    \/ Budget /\ \E x \in DragXs, y \in PointerYs : on_drag(x, y)
    \/ Budget /\ \E ctrl \in BOOLEAN : on_release(ctrl)
    \/ Budget /\ \E char \in KeyChars : on_keypress(char)
    \/ Budget /\ \E m \in BiomeMaps, biome_known, shape_known \in BOOLEAN :
           generate_biome(m, biome_known, shape_known)
    \/ Budget /\ undo
    \/ Budget /\ toggle_space_selection
    \/ Budget /\ clear_selection
    \/ Budget /\ \E size \in BrushSizes : set_paintbrush_size(size)
    \/ Run_on_zoom
    \/ Run_redraw_visible_cells_force_complete
    \/ Run_second_pass_redraw
    \/ Run_redraw_visible_cells
    \/ Run_update_selection_with_colors
    \/ Run_finish_painting_session
    \/ RunIdle

Spec == Init /\ [][Next]_vars

\* ------------------------------------------------------------ scenarios
\* Sessions in which only some of the events occur; every behaviour of a
\* scenario is a behaviour of the editor.

\* Selecting: files are loaded, cells selected with the brush (click and
\* drag), the selection mode toggled, the selection filled or painted.
NextEdit ==
    \/ nevents < MaxEditEvents /\ \E file \in Files : load_text_file(file, TRUE)
    \/ nevents < MaxEditEvents /\ \E size \in BrushSizes : set_paintbrush_size(size)
    \/ nevents < MaxEditEvents
         /\ \E x \in PointerXs, y \in PointerYs, ctrl \in BOOLEAN : on_click(x, y, ctrl)
    \/ nevents < MaxEditEvents /\ \E x \in DragXs, y \in PointerYs : on_drag(x, y)
    \/ nevents < MaxEditEvents /\ toggle_space_selection
    \/ nevents < MaxEditEvents /\ \E char \in KeyChars : on_keypress(char)
    \/ nevents < MaxEditEvents /\ \E m \in BiomeMaps : generate_biome(m, TRUE, TRUE)
    \/ Run_redraw_visible_cells_force_complete
    \/ Run_update_selection_with_colors
    \/ Run_finish_painting_session
    \/ RunIdle

SpecEdit == Init /\ [][NextEdit]_vars

\* Filling and scrolling: a file is loaded, cells are selected and filled,
\* the view is scrolled vertically.
NextFill ==
    \/ nevents < MaxFillEvents /\ \E file \in Files : load_text_file(file, TRUE)
    \/ nevents < MaxFillEvents /\ \E size \in BrushSizes : set_paintbrush_size(size)
    \/ nevents < MaxFillEvents
         /\ \E x \in PointerXs, y \in PointerYs : on_click(x, y, FALSE)
    \/ nevents < MaxFillEvents /\ \E char \in KeyChars : on_keypress(char)
    \/ nevents < MaxFillEvents /\ \E t \in ScrollTargets : on_vertical_scroll(t)
    \/ Run_redraw_visible_cells_force_complete
    \/ Run_update_selection_with_colors
    \/ RunIdle

SpecFill == Init /\ [][NextFill]_vars

\* Editing with every mutating operation of the class, fill_selection
\* (which no menu entry or key binding calls) included, and undo.
NextApi ==
    \/ nevents < MaxApiEvents /\ \E file \in Files : load_text_file(file, TRUE)
    \/ nevents < MaxApiEvents
         /\ \E x \in PointerXs, y \in PointerYs : on_click(x, y, FALSE)
    \/ nevents < MaxApiEvents /\ \E char \in KeyChars : on_keypress(char)
    \/ nevents < MaxApiEvents /\ \E char \in KeyChars : fill_selection(char)
    \/ nevents < MaxApiEvents /\ \E m \in BiomeMaps : generate_biome(m, TRUE, TRUE)
    \/ nevents < MaxApiEvents /\ undo
    \/ Run_redraw_visible_cells_force_complete
    \/ Run_update_selection_with_colors

SpecApi == Init /\ [][NextApi]_vars

\* Undoing across loads: files are loaded, cells selected with the brush
\* and filled, another file is loaded over the grid, and undo is called.
NextStale ==
    \/ nevents < MaxStaleEvents /\ \E file \in Files : load_text_file(file, TRUE)
    \/ nevents < MaxStaleEvents /\ \E size \in BrushSizes : set_paintbrush_size(size)
    \/ nevents < MaxStaleEvents
         /\ \E x \in PointerXs, y \in PointerYs : on_click(x, y, FALSE)
    \/ nevents < MaxStaleEvents /\ \E char \in KeyChars : on_keypress(char)
    \/ nevents < MaxStaleEvents /\ undo
    \/ Run_redraw_visible_cells_force_complete
    \/ Run_update_selection_with_colors

SpecStale == Init /\ [][NextStale]_vars

\* Zooming: a file is loaded, the zoom slider is moved (again before or
\* after the pending resize has run).  The Tk event
\* loop runs every timer that is due and every idle callback.
NextZoom ==
    \/ nevents < MaxZoomEvents /\ \E file \in Files : load_text_file(file, TRUE)
    \/ nevents < MaxZoomEvents /\ \E z \in ZoomValues : on_zoom(z)
    \/ Run_on_zoom
    \/ Run_redraw_visible_cells_force_complete
    \/ Run_second_pass_redraw
    \/ RunIdle

SpecZoom ==
    /\ Init
    /\ [][NextZoom]_vars
    /\ WF_vars(Run_on_zoom)
    /\ WF_vars(Run_redraw_visible_cells_force_complete)
    /\ WF_vars(Run_second_pass_redraw)
    /\ WF_vars(RunIdle)

\* Watching the selection overlay: a file is loaded, cells are selected, the
\* view is scrolled (scrollbar or wheel) or zoomed, the space-only mode is
\* toggled.  The Tk event loop runs every timer that is due and every idle
\* callback.
NextOverlay ==
    \/ nevents < MaxOverlayEvents /\ \E file \in Files : load_text_file(file, TRUE)
    \/ nevents < MaxOverlayEvents
         /\ \E x \in PointerXs, y \in PointerYs : on_click(x, y, FALSE)
    \/ nevents < MaxOverlayEvents /\ \E t \in ScrollTargets : on_vertical_scroll(t)
    \/ nevents < MaxOverlayEvents /\ \E n \in WheelNotches : on_mousewheel(n)
    \/ nevents < MaxOverlayEvents /\ \E z \in ZoomValues : on_zoom(z)
    \/ nevents < MaxOverlayEvents /\ toggle_space_selection
    \/ Run_on_zoom
    \/ Run_redraw_visible_cells_force_complete
    \/ Run_second_pass_redraw
    \/ Run_update_selection_with_colors
    \/ RunIdle

SpecOverlay ==
    /\ Init
    /\ [][NextOverlay]_vars
    /\ WF_vars(Run_on_zoom)
    /\ WF_vars(Run_redraw_visible_cells_force_complete)
    /\ WF_vars(Run_second_pass_redraw)
    /\ WF_vars(Run_update_selection_with_colors)
    /\ WF_vars(RunIdle)

\* The canvas items of one pooled cell are deleted behind the pool's back
\* (the case simple_update_canvas_object's `except tk.TclError` is written
\* for): the entry stays in canvas_objects and names items that are gone.
\* No handler of the editor does this; one entry at a time is destroyed.
item_destroyed ==
    /\ \A k \in DOMAIN canvas_objects : canvas_objects[k] # Destroyed
    /\ \E k \in DOMAIN canvas_objects :
         canvas_objects' = [canvas_objects EXCEPT ![k] = Destroyed]
    /\ Callback("item_destroyed")
    /\ UNCHANGED <<gridVars, selVars, undo_stack, grid_log, viewVars,
                   selection_rects, previous_visible_range,
                   canvas_operation_count, schedVars, currently_painting>>

\* A destroyed item: a file is loaded, the view is scrolled, an item is
\* destroyed, and the deferred render passes run.  (Where a render pass
\* visits a destroyed entry, ShowCells recreates it: the TclError branch.)
NextDestroyed ==
    \/ nevents < MaxDestroyedEvents /\ \E file \in Files : load_text_file(file, TRUE)
    \/ nevents < MaxDestroyedEvents /\ \E t \in ScrollTargets : on_vertical_scroll(t)
    \/ nevents < MaxDestroyedEvents /\ \E t \in ScrollTargets : on_horizontal_scroll(t)
    \/ item_destroyed
    \/ Run_redraw_visible_cells_force_complete
    \/ RunIdle

SpecDestroyed == Init /\ [][NextDestroyed]_vars

\* Painting sessions: a file is loaded, the pointer is pressed, dragged and
\* released (with or without Ctrl).  The Tk event loop runs every timer that
\* is due and every idle callback.
NextPaint ==
    \/ nevents < MaxPaintEvents /\ \E file \in Files : load_text_file(file, TRUE)
    \/ nevents < MaxPaintEvents
         /\ \E x \in PointerXs, y \in PointerYs, ctrl \in BOOLEAN : on_click(x, y, ctrl)
    \/ nevents < MaxPaintEvents /\ \E x \in DragXs, y \in PointerYs : on_drag(x, y)
    \/ nevents < MaxPaintEvents /\ \E ctrl \in BOOLEAN : on_release(ctrl)
    \/ Run_redraw_visible_cells_force_complete
    \/ Run_update_selection_with_colors
    \/ Run_finish_painting_session
    \/ RunIdle

SpecPaint ==
    /\ Init
    /\ [][NextPaint]_vars
    /\ WF_vars(Run_redraw_visible_cells_force_complete)
    /\ WF_vars(Run_update_selection_with_colors)
    /\ WF_vars(Run_finish_painting_session)
    /\ WF_vars(RunIdle)

\* The editor with `file` loaded in a window of `size`, the selection `sel`
\* made, and the deferred callbacks of the load and the clicks all run.
InitLoaded(file, size, sel) ==
    /\ grid = LoadedGrid(file)
    /\ rows = Len(file)
    /\ cols = MaxLineLen(file)
    /\ selected_cells = sel
    /\ select_spaces_only = FALSE
    /\ paintbrush_size = 1
    /\ undo_stack = << >>
    /\ grid_log = << >>
    /\ cell_width = base_cell_width
    /\ cell_height = base_cell_height
    /\ zoom_percentage = 100
    /\ canvas_width = size[1]
    /\ canvas_height = size[2]
    /\ region_w = ScrollRegion(MaxLineLen(file), base_cell_width, size[1])
    /\ region_h = ScrollRegion(Len(file), base_cell_height, size[2])
    /\ scroll_x = 0
    /\ scroll_y = 0
    /\ LET V == View(Len(file), MaxLineLen(file), 0, 0, base_cell_width,
                     base_cell_height, size[1], size[2])
           R == _redraw_visible_cells_force_complete(
                    Render(EmptyPool, {}, << >>, FALSE, {}, sel), V, LoadedGrid(file))
       IN /\ canvas_objects = R.pool
          /\ previous_visible_range = R.prev
          /\ selection_rects = {k \in sel \cap R.prev : InBounds(V, k)}
    /\ canvas_operation_count = 0
    /\ currently_painting = FALSE
    /\ debug_update_pending = FALSE
    /\ idle_queue = << >>
    /\ timers = << >>
    /\ nevents = 0
    /\ last_op = "_redraw_visible_cells_force_complete"
    /\ uncaught = NoException

\* Filling the undo stack: a one-cell file is loaded and its cell selected;
\* the cell is filled and painted over and over, and undone.
CapFile == << <<SPACE>> >>

NextCap ==
    \/ nevents < MaxCapEvents /\ on_keypress("x")
    \/ nevents < MaxCapEvents /\ generate_biome("grass", TRUE, TRUE)
    \/ nevents < MaxCapEvents /\ undo
    \/ Run_update_selection_with_colors

SpecUndoCap == InitLoaded(CapFile, <<30, 30>>, {<<0, 0>>}) /\ [][NextCap]_vars

\* Cleaning up the pool: a large file is loaded in a large window and its
\* first cell selected; the selection is filled, the view is scrolled, and
\* safe_cleanup_canvas_objects runs.  (Its only caller,
\* _finish_painting_session, requires canvas_operation_count >
\* cleanup_threshold.)
BigFile ==
    [i \in 1 .. BigRows |->
        [j \in 1 .. BigCols |-> IF (i + 2 * j) % 7 = 0 THEN "#" ELSE SPACE]]
BigCanvas == <<680, 600>>
BigScrollTargets == {0, 700, 1400}

\* (mutant: the cleanup also drops the selected cells that lost their handle)
Run_safe_cleanup_dropping_selection ==
    /\ Callback("safe_cleanup_canvas_objects")
    /\ canvas_objects' = safe_cleanup_canvas_objects(canvas_objects, CurView)
    /\ selected_cells' = selected_cells \cap DOMAIN canvas_objects'
    /\ UNCHANGED <<gridVars, select_spaces_only, paintbrush_size, undo_stack,
                   grid_log, viewVars, selection_rects, previous_visible_range,
                   canvas_operation_count, schedVars, currently_painting>>

Run_safe_cleanup_canvas_objects ==
    /\ Callback("safe_cleanup_canvas_objects")
    /\ canvas_objects' = safe_cleanup_canvas_objects(canvas_objects, CurView)
    /\ UNCHANGED <<gridVars, selVars, undo_stack, grid_log, viewVars,
                   selection_rects, previous_visible_range,
                   canvas_operation_count, schedVars,
                   currently_painting>>

NextEvict ==
    \/ nevents < MaxEvictEvents /\ \E char \in KeyChars : on_keypress(char)
    \/ nevents < MaxEvictEvents /\ \E t \in BigScrollTargets : on_vertical_scroll(t)
    \/ RunIdle
    \/ Run_safe_cleanup_canvas_objects

SpecEvict == InitLoaded(BigFile, BigCanvas, {<<0, 0>>}) /\ [][NextEvict]_vars

\* Exploring a large grid: the file is loaded, the view is scrolled through
\* the grid, and the mouse button is released, which ends a painting session
\* (_finish_painting_session runs 100 ms later).
NextExplore ==
    \/ nevents < MaxExploreEvents /\ \E t \in BigScrollTargets : on_vertical_scroll(t)
    \/ nevents < MaxExploreEvents /\ \E ctrl \in BOOLEAN : on_release(ctrl)
    \/ RunIdle
    \/ Run_finish_painting_session

SpecExplore == InitLoaded(BigFile, BigCanvas, {}) /\ [][NextExplore]_vars

\* ---------------------------------------------------------------- claims
\* No deferred callback is pending.
Quiescent == idle_queue = << >> /\ timers = << >>

\* C1: once every pending deferred callback has run, each materialized
\* handle of a cell in the current VisibleRange displays the cell's current
\* grid character.
C1_RenderedMatchesGrid ==
    Quiescent =>
        \A k \in VisibleRange(CurView) \cap DOMAIN canvas_objects :
            canvas_objects[k] = grid[k]

\* C2: once the deferred re-render callbacks of the scroll and zoom events
\* have run, every coordinate of the current VisibleRange has an entry in
\* the pool.
C2_VisibleMaterialized ==
    Quiescent => VisibleRange(CurView) \subseteq DOMAIN canvas_objects

\* A file is loaded and zoomed, the view is scrolled, and every callback ran.
C2_ScrolledAfterZoom ==
    /\ Quiescent
    /\ last_op = "_sync_selection_after_scroll"
    /\ rows > 0
    /\ cell_height # base_cell_height
    /\ scroll_y > 0
    /\ VisibleRange(CurView) # {}

\* A user event handled by undo.
UndoStep == last_op' = "undo" /\ nevents' = nevents + 1

\* C3: an undo that follows mutating operations on the loaded grid (keypress
\* fill, fill_selection, terrain) leaves the grid as it was before the last
\* of them that pushed a ChangeSet; undo after undo walks back through the
\* grids before each operation.
C3_UndoRoundTrip ==
    [][(UndoStep /\ grid_log # << >>) =>
          /\ grid' = Last(grid_log)
          /\ grid_log' = Front(grid_log)]_vars

\* Two operations changed the grid, and one undo brought back the grid
\* between them, which differs from the grid before the first.
C3_UndoneOnce ==
    /\ last_op = "undo"
    /\ Len(grid_log) = 1
    /\ Len(undo_stack) = 1
    /\ grid # grid_log[1]

\* C4: undo with an empty undo stack changes nothing: the grid, its
\* dimensions, the selection and the (empty) stack are as before.
C4_UndoEmptyNoOp ==
    [][(UndoStep /\ undo_stack = << >>) =>
          UNCHANGED <<grid, rows, cols, selected_cells, undo_stack>>]_vars

\* A file is loaded, cells are selected, and undo is called with nothing
\* on the stack.
C4_UndoneWithSelection ==
    /\ last_op = "undo"
    /\ nevents = 3
    /\ rows > 0
    /\ selected_cells # {}
    /\ undo_stack = << >>

\* The ChangeSet of a step that changes the grid.
StepChangeSet ==
    {<<k[1], k[2], grid[k]>> : k \in {j \in DOMAIN grid : grid'[j] # grid[j]}}

\* C5: the undo stack never holds more than max_undo ChangeSets; an
\* operation that changes the grid appends its ChangeSet, and when the stack
\* is full the oldest entry is dropped, the others keeping their order.
C5_UndoStackCapacity ==
    [][/\ Len(undo_stack') <= max_undo
       /\ (last_op' \in {"on_keypress", "generate_biome"} /\ grid' # grid) =>
             undo_stack' =
                 IF Len(undo_stack) < max_undo
                 THEN Append(undo_stack, StepChangeSet)
                 ELSE Append(Tail(undo_stack), StepChangeSet)]_vars

\* More than max_undo ChangeSets were pushed: the stack is full and the
\* first ChangeSet (which recorded the file's space) is gone.
C5_OldestDropped ==
    /\ Len(undo_stack) = max_undo
    /\ nevents > max_undo
    /\ last_op \in {"on_keypress", "generate_biome"}
    /\ undo_stack[1] # {<<0, 0, SPACE>>}

\* C6: the renderer's VisibleRange holds only coordinates of the grid,
\* whatever the scroll offset, the cell size and the grid size.
C6_VisibleRangeInGrid ==
    VisibleRange(CurView) \subseteq Coords(rows, cols)

\* The view is scrolled down and rows is 0 (a file without lines was opened
\* over a loaded one): the offset lies past the grid.
C6_OffsetPastGrid ==
    /\ rows = 0
    /\ cols > 0
    /\ scroll_y > 0

\* A coordinate of the VisibleRange expanded by buffer_cells on each side.
NearVisible(k) ==
    LET rs == RangeStart(scroll_y, cell_height, 0)
        re == RangeEnd(scroll_y + canvas_height, cell_height, rows, 1)
        cs == RangeStart(scroll_x, cell_width, 0)
        ce == RangeEnd(scroll_x + canvas_width, cell_width, cols, 1)
    IN /\ rs < re /\ cs < ce
       /\ k[1] >= rs - buffer_cells /\ k[1] <= re - 1 + buffer_cells
       /\ k[2] >= cs - buffer_cells /\ k[2] <= ce - 1 + buffer_cells

CleanupStep == last_op' = "safe_cleanup_canvas_objects"

\* C7: every pool entry that safe_cleanup_canvas_objects removes lies
\* outside the current VisibleRange expanded by buffer_cells (50).
C7_EvictionSparesBuffer ==
    [][CleanupStep =>
          \A k \in (DOMAIN canvas_objects) \ (DOMAIN canvas_objects') :
              ~NearVisible(k)]_vars

\* The cleanup ran with the view scrolled down and removed the first cell's
\* handle while the visible cells kept theirs.
C7_Evicted ==
    /\ last_op = "safe_cleanup_canvas_objects"
    /\ scroll_y > 0
    /\ <<0, 0>> \notin DOMAIN canvas_objects
    /\ VisibleRange(CurView) # {}
    /\ VisibleRange(CurView) \subseteq DOMAIN canvas_objects

\* C8: safe_cleanup_canvas_objects leaves the grid, its dimensions, the
\* selection and the undo stack as they were.
C8_EvictionFrame ==
    [][CleanupStep =>
          UNCHANGED <<grid, rows, cols, selected_cells, undo_stack>>]_vars

\* The cleanup removed the handle of a selected cell that a recorded fill
\* had changed.
C8_SelectedCellEvicted ==
    /\ last_op = "safe_cleanup_canvas_objects"
    /\ undo_stack # << >>
    /\ \E k \in selected_cells : k \notin DOMAIN canvas_objects /\ grid[k] = "x"

\* The N x N block anchored at the cell under the pointer, clipped to the grid.
StampBlock(x, y) ==
    LET r == (scroll_y + y) \div cell_height
        c == (scroll_x + x) \div cell_width
    IN {k \in Coords(rows, cols) :
          /\ r <= k[1] /\ k[1] <= r + paintbrush_size - 1
          /\ c <= k[2] /\ k[2] <= c + paintbrush_size - 1}

\* The pointer is inside the window and the cell under it inside the grid.
AnchorInGrid(x, y) ==
    /\ x >= 0 /\ x < canvas_width /\ y >= 0 /\ y < canvas_height
    /\ (scroll_y + y) \div cell_height < rows
    /\ (scroll_x + x) \div cell_width < cols

\* A click without Ctrl or a drag motion with the pointer at (x, y).
PaintEvent(x, y) == on_click(x, y, FALSE) \/ on_drag(x, y)

\* C9: with every cell accepted, a stamp (click or drag, the pointer inside
\* the window) at an anchor inside the grid leaves the selection equal to
\* the old selection united with the clipped block.
C9_StampAllAccept ==
    [][\A x \in DragXs, y \in PointerYs :
          (PaintEvent(x, y) /\ ~select_spaces_only /\ AnchorInGrid(x, y)) =>
              selected_cells' = selected_cells \cup StampBlock(x, y)]_vars

\* A size-2 brush stamped at the edge of the grid: the block is clipped to
\* two cells.
C9_ClippedStamp ==
    /\ last_op \in {"on_click", "on_drag"}
    /\ ~select_spaces_only
    /\ paintbrush_size = 2
    /\ rows > 0
    /\ Cardinality(selected_cells) = 2

\* C10: with only spaces accepted, a stamp at an anchor inside the grid adds
\* exactly the cells of the clipped block that hold the space character.
C10_StampSpacesOnly ==
    [][\A x \in DragXs, y \in PointerYs :
          (PaintEvent(x, y) /\ select_spaces_only /\ AnchorInGrid(x, y)) =>
              selected_cells' =
                  selected_cells \cup {k \in StampBlock(x, y) : grid[k] = SPACE}]_vars

\* N = 2 at (0, 0) with '#' at (0, 1): the stamp selected (0,0), (1,0), (1,1).
C10_ExampleStamp ==
    /\ last_op = "on_click"
    /\ select_spaces_only
    /\ paintbrush_size = 2
    /\ grid = LoadedGrid(FileRagged)
    /\ selected_cells = {<<0, 0>>, <<1, 0>>, <<1, 1>>}

\* A user event handled by toggle_space_selection.
ToggleStep == last_op' = "toggle_space_selection" /\ nevents' = nevents + 1

\* C11: switching the space-only mode on removes from the selection exactly
\* the members whose grid character is not a space and keeps every member
\* whose character is a space; switching it off leaves the selection as it was.
C11_TogglePurgesNonSpaces ==
    [][ToggleStep =>
          selected_cells' =
              IF select_spaces_only
              THEN selected_cells
              ELSE {k \in selected_cells : grid[k] = SPACE}]_vars

Abs(n) == IF n < 0 THEN -n ELSE n

\* The grid coordinate under the pixel centre of the window:
\* int((canvasy(0) + winfo_height() / 2) / cell_height), and likewise for x.
CenterRow == (2 * scroll_y + canvas_height) \div (2 * cell_height)
CenterCol == (2 * scroll_x + canvas_width) \div (2 * cell_width)

\* _on_zoom runs on a loaded grid.
ZoomStep == last_op' = "_on_zoom" /\ rows > 0 /\ cols > 0

\* The offset _on_zoom asks for (center * new cell size - half the window,
\* doubled) lies inside the scrollable range of the new scroll region.
UnclampedY ==
    LET t2 == 2 * CenterRow * cell_height' - canvas_height
    IN t2 >= 0 /\ t2 <= 2 * (region_h' - canvas_height)
UnclampedX ==
    LET t2 == 2 * CenterCol * cell_width' - canvas_width
    IN t2 >= 0 /\ t2 <= 2 * (region_w' - canvas_width)

\* C12 as stated: after a zoom-apply on a loaded grid the coordinate under
\* the pixel centre differs by at most one cell in each axis from the
\* coordinate under the centre before.
C12_CenterKept ==
    [][ZoomStep =>
          /\ Abs(CenterRow' - CenterRow) <= 1
          /\ Abs(CenterCol' - CenterCol) <= 1]_vars

\* C12 amended: in each axis in which the offset asked for lies inside the
\* scrollable range, the coordinate under the pixel centre after the
\* zoom-apply differs by at most one cell from the one before.
C12_CenterKeptUnclamped ==
    [][ZoomStep =>
          /\ UnclampedY => Abs(CenterRow' - CenterRow) <= 1
          /\ UnclampedX => Abs(CenterCol' - CenterCol) <= 1]_vars

\* A zoom-apply moved a scrolled view to a new offset that keeps the centre.
C12_Recentred ==
    /\ last_op = "_on_zoom"
    /\ rows > 0
    /\ cell_height > base_cell_height
    /\ scroll_y > 0
    /\ scroll_y + canvas_height < region_h
    /\ CenterRow > 0

\* A fill of a non-empty selection with char, by the key handler or by
\* fill_selection.
FillEvent(char) ==
    /\ selected_cells # {}
    /\ on_keypress(char) \/ fill_selection(char)

\* C13: after a fill with character x on a non-empty selection, every member
\* of the selection that is in bounds reads back x from the grid, and every
\* cell that is not a member has the value it had before the fill.
C13_FillReadBack ==
    [][\A char \in KeyChars :
          FillEvent(char) =>
              /\ DOMAIN grid' = DOMAIN grid
              /\ \A k \in DOMAIN grid :
                    /\ (k \in selected_cells /\ InBounds(CurView, k)) => grid'[k] = char
                    /\ k \notin selected_cells => grid'[k] = grid[k]]_vars

\* A fill wrote "x" over a selected wall cell and left a wall cell outside
\* the selection.
C13_Filled ==
    /\ last_op \in {"on_keypress", "fill_selection"}
    /\ selected_cells # {}
    /\ \A k \in selected_cells : InBounds(CurView, k) /\ grid[k] = "x"
    /\ grid_log # << >>
    /\ \E k \in selected_cells : Last(grid_log)[k] = "#"
    /\ \E k \in DOMAIN grid \ selected_cells : grid[k] = "#"

\* C14: after a load and a scroll (at the default zoom), once the deferred
\* callbacks of the scroll have run, the set of materialized coordinates is
\* exactly the current VisibleRange: those coordinates and no others.
C14_ExactlyVisible ==
    (/\ Quiescent
     /\ last_op = "_sync_selection_after_scroll"
     /\ rows > 0
     /\ cell_width = base_cell_width
     /\ cell_height = base_cell_height)
        => DOMAIN canvas_objects = VisibleRange(CurView)

\* C15: the pool stays bounded.  Since the load (which empties the pool and
\* resets the operation counter) every handle in the pool was created by one
\* render operation, so a pool of more than cleanup_threshold handles means
\* the counter has crossed the threshold: at the painting-finished point
\* that follows, _finish_painting_session has evicted every handle outside
\* the VisibleRange expanded by buffer_cells.
C15_EvictedWhenFinished ==
    (/\ last_op = "_finish_painting_session"
     /\ Cardinality(DOMAIN canvas_objects) > cleanup_threshold)
        => \A k \in DOMAIN canvas_objects : NearVisible(k)

\* A load that succeeds: the file is readable and has at least one line.
LoadStep == \E file \in Files \ {FileEmpty} : load_text_file(file, TRUE)

\* C16: a successful load resets the session: afterwards the view is at the
\* top-left, the selection is empty, every handle of the pool shows a cell
\* of the new grid, and the undo stack is empty; an undo issued right after
\* the load leaves the newly loaded grid as it is.
C16_LoadResetsSession ==
    [][/\ LoadStep =>
            /\ scroll_x' = 0 /\ scroll_y' = 0
            /\ selected_cells' = {}
            /\ \A k \in DOMAIN canvas_objects' :
                  k \in DOMAIN grid' /\ canvas_objects'[k] = grid'[k]
            /\ undo_stack' = << >>
       /\ (UndoStep /\ last_op = "load_text_file" /\ rows > 0 /\ grid_log = << >>) =>
            grid' = grid]_vars

\* C17, for undo: when undo replays a ChangeSet on an array whose shape is
\* rows x cols, an entry outside [0,rows) x [0,cols) is ignored without an
\* error: no exception escapes, every entry inside is written back, no
\* other cell changes, and undo goes on to update_selection.
C17_UndoIgnoresOutOfRange ==
    [][(UndoStep /\ undo_stack # << >> /\ DOMAIN grid = Coords(rows, cols)) =>
          /\ uncaught' = NoException
          /\ DOMAIN grid' = DOMAIN grid
          /\ \A e \in Last(undo_stack) :
                InBounds(CurView, <<e[1], e[2]>>) => grid'[<<e[1], e[2]>>] = e[3]
          /\ timers' = update_selection(timers, currently_painting)]_vars

\* C18: in every reachable state every member of the selection lies inside
\* the current grid dimensions: 0 <= r < rows and 0 <= c < cols.
C18_SelectionInBounds ==
    selected_cells \subseteq Coords(rows, cols)

\* The operations that write characters and record a ChangeSet.
FillOps == {"on_keypress", "fill_selection", "generate_biome"}

\* No ChangeSet is empty and none lists a coordinate twice.
WellFormed(action) ==
    /\ action # {}
    /\ \A e1, e2 \in action : (e1[1] = e2[1] /\ e1[2] = e2[2]) => e1 = e2

\* C19: every ChangeSet on the undo stack is non-empty and lists each
\* coordinate at most once; an operation that changes no cell pushes
\* nothing, and the ChangeSet an operation pushes records for each entry the
\* character the cell had, which is not the character written to it.
C19_ChangeSetsWellFormed ==
    [][/\ \A i \in 1 .. Len(undo_stack') : WellFormed(undo_stack'[i])
       /\ (last_op' \in FillOps /\ nevents' = nevents + 1) =>
             IF grid' = grid
             THEN undo_stack' = undo_stack
             ELSE /\ undo_stack' # << >>
                  /\ \A e \in Last(undo_stack') :
                        /\ grid[<<e[1], e[2]>>] = e[3]
                        /\ grid'[<<e[1], e[2]>>] # e[3]]_vars

\* A fill of a selection in which one cell already held the character: the
\* ChangeSet pushed lists the changed cells only.
C19_PartialChangeSet ==
    /\ last_op \in FillOps
    /\ undo_stack # << >>
    /\ \A e \in Last(undo_stack) :
          <<e[1], e[2]>> \in selected_cells /\ grid[<<e[1], e[2]>>] # e[3]
    /\ \E k \in selected_cells :
          InBounds(CurView, k) /\ \A e \in Last(undo_stack) : <<e[1], e[2]>> # k

\* generate_biome is called with an empty selection, or with a biome or a
\* shape key that is not in the tables.
BiomeAbortStep ==
    \E m \in BiomeMaps, biome_known, shape_known \in BOOLEAN :
        /\ selected_cells = {} \/ ~biome_known \/ ~shape_known
        /\ generate_biome(m, biome_known, shape_known)

\* C20: terrain generation called with an empty selection or with an unknown
\* biome or shape key is aborted: no exception escapes from the handler, and
\* the grid, its dimensions, the selection and the undo stack are as before.
C20_BiomeAbortIsQuiet ==
    [][BiomeAbortStep =>
          /\ uncaught' = NoException
          /\ UNCHANGED <<grid, rows, cols, selected_cells, undo_stack>>]_vars

\* A load that fails: the file cannot be read, or it has no lines.
FailedLoadStep ==
    \/ \E file \in Files : load_text_file(file, FALSE)
    \/ load_text_file(FileEmpty, TRUE)

\* C21: a load that fails leaves the grid contents, rows, cols, the
\* selection, the pool and the undo stack exactly as they were before the
\* attempt, and no exception escapes from the handler.
C21_FailedLoadChangesNothing ==
    [][FailedLoadStep =>
          /\ uncaught' = NoException
          /\ UNCHANGED <<grid, rows, cols, selected_cells, canvas_objects,
                         undo_stack>>]_vars

\* A terrain application with known keys on a non-empty selection.
BiomeStep ==
    /\ selected_cells # {}
    /\ \E m \in BiomeMaps : generate_biome(m, TRUE, TRUE)

\* C22: a terrain application changes only cells of the selection: every
\* other cell, inside or outside the bounding box, keeps its value; the
\* changes of one application are recorded in exactly one ChangeSet, pushed
\* on the undo stack, and an application that changes nothing pushes none.
C22_BiomeFrame ==
    [][BiomeStep =>
          /\ DOMAIN grid' = DOMAIN grid
          /\ \A k \in DOMAIN grid : k \notin selected_cells => grid'[k] = grid[k]
          /\ IF grid' = grid
             THEN undo_stack' = undo_stack
             ELSE /\ undo_stack' # << >>
                  /\ Last(undo_stack') = StepChangeSet
                  /\ \/ Front(undo_stack') = undo_stack
                     \/ /\ Len(undo_stack) = max_undo
                        /\ Front(undo_stack') = Tail(undo_stack)]_vars

\* Terrain was applied to the diagonal selection (0,0), (1,1): the wall at
\* (0,1), inside the bounding box, is as it was.
C22_DiagonalBiome ==
    /\ last_op = "generate_biome"
    /\ selected_cells = {<<0, 0>>, <<1, 1>>}
    /\ grid[<<0, 0>>] \in {".", "f"}
    /\ grid[<<1, 1>>] \in {".", "f"}
    /\ grid[<<0, 1>>] = "#"
    /\ undo_stack # << >>

\* The pending zoom-apply callbacks.
ZoomPending == {i \in 1 .. Len(timers) : timers[i].cb = "_on_zoom"}

\* C23: zoom debounce.  At any time at most one zoom-apply callback is
\* pending; a slider change leaves exactly one pending, whatever was pending
\* before; the callback that runs leaves none pending and applies the last
\* slider value; and a pending callback does run.
C23_ZoomDebounce ==
    /\ [](Cardinality(ZoomPending) <= 1)
    /\ [][/\ last_op' = "on_zoom" => Cardinality(ZoomPending') = 1
          /\ last_op' = "_on_zoom" =>
                /\ Cardinality(ZoomPending) = 1
                /\ ZoomPending' = {}
                /\ cell_width' = ZoomedCell(base_cell_width, zoom_percentage)
                /\ cell_height' = ZoomedCell(base_cell_height, zoom_percentage)]_vars
    /\ (ZoomPending # {}) ~> (last_op = "_on_zoom" /\ ZoomPending = {})

\* The slider was moved on a loaded grid for the last events of the session
\* and the one callback has applied its last value.
C23_BurstApplied ==
    /\ last_op = "_on_zoom"
    /\ nevents = MaxZoomEvents
    /\ rows > 0
    /\ ZoomPending = {}
    /\ zoom_percentage # 100
    /\ cell_width = ZoomedCell(base_cell_width, zoom_percentage)

\* The pending painting-finished callbacks.
FinishPending ==
    {i \in 1 .. Len(timers) : timers[i].cb = "_finish_painting_session"}

\* C24: at any time at most one painting-finished callback is pending.
C24_OneFinishPending ==
    Cardinality(FinishPending) <= 1

\* The pending selection-overlay resyncs: the timers registered by
\* update_selection and the idle callbacks registered by the scroll handlers.
ResyncPending ==
    Cardinality({i \in 1 .. Len(timers) :
                    timers[i].cb = "_update_selection_with_colors"})
    + Cardinality({i \in 1 .. Len(idle_queue) :
                      idle_queue[i] = "_sync_selection_after_scroll"})

\* C25: at any time at most one selection-overlay resync callback is pending.
C25_OneResyncPending ==
    ResyncPending <= 1

\* A drag motion occurred within the last 500 ms: the timer it registered
\* has neither fired nor been cancelled.
DragWindowOpen(ts) ==
    \E i \in 1 .. Len(ts) :
        ts[i].cb = "_finish_painting_session" /\ ts[i].ms = 500

\* C26: the painting-finished callback never runs while the user is still
\* painting: when it runs, it is not the case that a painting session is
\* marked and a drag motion occurred within the preceding 500 ms.
C26_FinishNotWhilePainting ==
    [][last_op' = "_finish_painting_session" =>
          ~(currently_painting /\ DragWindowOpen(timers'))]_vars

\* C27: the painting state follows Idle -> Painting -> Idle.  It is Painting
\* after a pointer-down and after a drag motion with the pointer inside the
\* window; it is Idle after every pointer-up, whatever modifier is held, and
\* after a drag motion with the pointer outside the window; no other step
\* changes it.
C27_PaintingStateMachine ==
    [][/\ last_op' \in {"on_click", "on_click_ctrl"} => currently_painting'
       /\ last_op' \in {"on_release", "on_release_ctrl"} => ~currently_painting'
       /\ \A x \in DragXs, y \in PointerYs :
             on_drag(x, y) => (currently_painting' <=> x < canvas_width)
       /\ last_op' \notin {"on_click", "on_click_ctrl", "on_release",
                           "on_release_ctrl", "on_drag"} =>
             currently_painting' = currently_painting]_vars

\* C28: a click with Ctrl held at an anchor with brush size N removes from
\* the selection exactly the selected cells of the clipped N x N block, adds
\* no cell, and leaves the grid, its dimensions and the undo stack unchanged.
C28_CtrlClickDeselects ==
    [][\A x \in PointerXs, y \in PointerYs :
          on_click(x, y, TRUE) =>
              /\ selected_cells' = selected_cells \ StampBlock(x, y)
              /\ UNCHANGED <<grid, rows, cols, undo_stack>>]_vars

\* A size-2 stamp selected four cells and a Ctrl+click with the size-2 brush
\* at another anchor removed the one cell of its block that was selected.
C28_OneCellRemoved ==
    /\ last_op = "on_click_ctrl"
    /\ paintbrush_size = 2
    /\ rows > 0
    /\ Cardinality(selected_cells) = 3

\* C29: a selection-overlay resync (_sync_selection_after_scroll run from the
\* idle queue, _update_selection_with_colors run from its timer) changes
\* overlay rectangles only: the selection, the grid, the pool and the undo
\* stack are the same before and after the callback.
ResyncOps == {"_sync_selection_after_scroll", "_update_selection_with_colors"}

C29_ResyncFrame ==
    [][last_op' \in ResyncOps =>
         UNCHANGED <<selected_cells, grid, rows, cols, canvas_objects,
                     undo_stack>>]_vars

\* The resync after a scroll has removed the rectangle of a selected cell
\* that left the view.
C29_RectangleDropped ==
    /\ last_op = "_sync_selection_after_scroll"
    /\ rows > 0
    /\ selected_cells # {}
    /\ selected_cells \cap VisibleRange(CurView) = {}
    /\ selection_rects = {}

\* C30: after a scroll (scrollbar or mouse wheel), after a zoom-apply and
\* after a space-only toggle, unless another user event arrives first, the
\* deferred callbacks run and leave an overlay rectangle on every selected
\* cell of the current visible range.
OverlayTriggers ==
    {"on_vertical_scroll", "on_horizontal_scroll", "on_mousewheel", "_on_zoom",
     "toggle_space_selection"}

OverlayCovers ==
    \A k \in selected_cells \cap VisibleRange(CurView) : k \in selection_rects

C30_OverlayResynced ==
    \A n \in 0 .. MaxOverlayEvents :
        (last_op \in OverlayTriggers /\ nevents = n)
            ~> ((Quiescent /\ OverlayCovers) \/ nevents > n)

\* C31: safe_cleanup_canvas_objects may run at any point between events
\* (between a scroll and its deferred re-render, between two scrolls):
\* whatever the interleaving, once the pending re-render callbacks have run,
\* every cell of the current VisibleRange has a handle in the pool again.
C31_EvictionAnywhereIsSafe ==
    (Quiescent /\ rows > 0) =>
        \A k \in VisibleRange(CurView) : k \in DOMAIN canvas_objects

\* C32: no single handler or callback does render or fill work on more than
\* one batch of cells: in one step at most batch_size handles are created
\* and at most batch_size grid cells are written.
C32_OneBatchPerStep ==
    [][/\ Cardinality((DOMAIN canvas_objects') \ (DOMAIN canvas_objects))
             <= batch_size
       /\ DOMAIN grid' = DOMAIN grid =>
             Cardinality(Changed(grid, grid')) <= batch_size]_vars

\* C33: no deferred callback (re-render, forced redraw, second pass,
\* selection resync, painting-finished, zoom-apply) writes the grid or the
\* selection: they change only in the keypress-fill, terrain, undo, brush,
\* toggle, clear and load handlers.
DeferredOps ==
    {"_redraw_visible_cells", "_redraw_visible_cells_force_complete",
     "_force_complete_redraw_after_zoom", "_second_pass_redraw",
     "_sync_selection_after_scroll", "_update_selection_with_colors",
     "_update_debug_label", "_finish_painting_session", "_on_zoom"}

WritingHandlers ==
    {"on_keypress", "generate_biome", "undo", "on_click", "on_click_ctrl",
     "on_drag", "toggle_space_selection", "clear_selection", "load_text_file"}

C33_CallbacksReadOnly ==
    [][/\ (nevents' = nevents \/ last_op' \in DeferredOps) =>
             UNCHANGED <<grid, selected_cells>>
       /\ (grid' # grid \/ selected_cells' # selected_cells) =>
             last_op' \in WritingHandlers]_vars

\* The painting-finished callback ran with cells selected.
C33_FinishedWithSelection ==
    /\ last_op = "_finish_painting_session"
    /\ rows > 0
    /\ selected_cells # {}
    /\ ~currently_painting

\* C34: when a pool entry names canvas items that have been destroyed, the
\* very next render pass discards it and draws the cell afresh with the
\* grid's character, without an error: after a render pass no visible cell
\* has a stale entry.
RenderPassOps ==
    {"_redraw_visible_cells", "_redraw_visible_cells_force_complete"}

C34_StaleEntryRepaired ==
    [][last_op' \in RenderPassOps =>
          /\ uncaught' = NoException
          /\ \A k \in VisibleRange(CurView') \cap DOMAIN canvas_objects' :
                canvas_objects'[k] # Destroyed]_vars

\* C35: while the space-only mode is on, every selected cell is a cell of
\* the grid whose character is the space, whatever stamps, toggles, fills,
\* terrain applications and undos came before.
C35_SpaceOnlySelection ==
    select_spaces_only =>
        \A k \in selected_cells : k \in DOMAIN grid /\ grid[k] = SPACE

\* C36: once painting has finished and every pending callback has run, no
\* overlay rectangle exists for a cell outside the selection (after a
\* Ctrl+click de-selection and after clearing the selection included).
C36_NoOrphanRectangle ==
    (Quiescent /\ ~currently_painting) =>
        \A k \in selection_rects : k \in selected_cells

\* C37: in every reachable state every in-grid coordinate of
\* previous_visible_range has an entry in the pool (the delta renderer skips
\* exactly the cells of previous_visible_range).  The states are those of
\* the editor, where _finish_painting_session never reaches
\* safe_cleanup_canvas_objects (C15); a cleanup between a scroll and its
\* re-render breaks the property (C31).
C37_PreviousRangePooled ==
    \A k \in previous_visible_range :
        InBounds(CurView, k) => k \in DOMAIN canvas_objects

\* The view was scrolled away from the top and the delta renderer ran: the
\* range it recorded is in the grid and pooled.
C37_ScrolledRangeRecorded ==
    /\ last_op = "_redraw_visible_cells"
    /\ rows > 0
    /\ scroll_y > 0
    /\ previous_visible_range # {}
    /\ previous_visible_range = VisibleRange(CurView)
    /\ \E k \in DOMAIN canvas_objects : k \notin previous_visible_range

\* C38: a zoom-apply that runs while no grid is loaded, or while the grid
\* has no rows or no columns, raises nothing, still registers the forced
\* re-render, and leaves the grid, the selection and the undo stack alone.
C38_ZoomWithoutGrid ==
    [][(last_op' = "_on_zoom" /\ (rows = 0 \/ cols = 0)) =>
          /\ uncaught' = NoException
          /\ \E i \in 1 .. Len(idle_queue') :
                idle_queue'[i] = "_force_complete_redraw_after_zoom"
          /\ UNCHANGED <<grid, selected_cells, undo_stack>>]_vars

\* C39: a pointer gesture made with Ctrl held (press, drag motions,
\* release) never adds a cell to the selection.  on_drag does not read the
\* modifier, so the drag motion that follows a Ctrl+press is on_drag; the
\* property is stated for that first motion of the gesture.
C39_CtrlGestureNeverAdds ==
    [][(last_op = "on_click_ctrl" /\ last_op' = "on_drag") =>
          selected_cells' \subseteq selected_cells]_vars

\* C40: the editor never stays stuck in Painting.  While the painting flag
\* is set a painting-finished timer is pending; when pointer events stop
\* the timers fire and the flag is cleared; and only a drag sets it again.
C40_PaintingEnds ==
    /\ [](currently_painting => FinishPending # {})
    /\ [][(~currently_painting /\ currently_painting') =>
             last_op' = "on_drag"]_vars
    /\ currently_painting ~> (~currently_painting /\ FinishPending = {})

\* A drag selected a cell, its painting-finished timer fired, and the flag
\* is cleared with no such timer left.
C40_SessionEnded ==
    /\ last_op = "_finish_painting_session"
    /\ nevents = MaxPaintEvents
    /\ selected_cells # {}
    /\ ~currently_painting
    /\ FinishPending = {}
====
